---- MODULE Spec2Model ----
(***************************************************************************)
(* Model of the structured logging subsystem: the Logger facade            *)
(* (src/utils/logger.ts), the level filter (logging/config.ts) and the     *)
(* FileTransport with its size-based rotation (logging/transports.ts).     *)
(*                                                                         *)
(* A log call is synchronous and runs to completion on the event loop, so  *)
(* it is one action.  What Node does asynchronously for a WriteStream      *)
(* (opening the file, writing buffered chunks, closing the descriptor) is  *)
(* a separate action per step, interleaved freely with the log calls.      *)
(* The log directory is a map from names to inodes, because a descriptor   *)
(* keeps pointing at its file after the file has been renamed.             *)
(***************************************************************************)
EXTENDS Integers, Sequences, FiniteSets, TLC

\* ------------------------------------------------------------------ bounds
\* number of LogEntry objects created in a run (calls that pass the level filter)
MaxEntries == 3
\* largest retention count (maxFiles) a FileTransport is constructed with
MaxFilesBound == 2
\* sizes are counted in serialized entries: the length of one entry, and the size
\* thresholds (maxFileSize) a FileTransport is constructed with
EntryLens == {1}

Thresholds == {1, 2}

\* the longest entry
MaxEntryLen == CHOOSE n \in EntryLens : \A m \in EntryLens : m <= n
\* number of environment failures (throwing stat/rename/stringify, stream error) in a run
MaxFaults == 1
\* number of HTTP requests in a run
MaxRequests == 2

\* ------------------------------------------------------------- vocabulary
\* the LogLevel type and the order of the array in shouldLog
levels == <<"debug", "info", "warn", "error">>

LogLevel == {levels[i] : i \in 1..Len(levels)}

\* values process.env.LOG_LEVEL can be cast to: the four levels or any other word
ConfigLevels == LogLevel \cup {"verbose"}

\* directory slot of `${logFileName}` (the active file); slot i >= 1 is `${logFileName}.${i}`
ActiveName == 0

\* no inode under a name / currentStream = null
NoFile == 0

NoStream == 0

\* path.join(logDir, logFileName), the only path the transport ever opens
filePath == "app.log"

\* no requestId (a Logger call outside the middleware, req.requestId undefined)
NoId == 0

\* the identifiers uuidv4() hands out
RequestIds == 1..MaxRequests

\* (req as any).requestId || 'unknown': a value that is no uuid
UnknownId == MaxRequests + 1

\* no error object / the error objects that reach errorLogger
NoError == "none"

Errors == {"e1", "e2"}

\* res.statusCode values, around the two boundaries 400 and 500
StatusCodes == {200, 399, 400, 404, 499, 500, 503}

\* ------------------------------------------------------------------ state
VARIABLES
    config,        \* LoggingConfig: level, enableConsole, enableFileTransport
    maxFileSize,   \* FileTransport.maxFileSize
    maxFiles,      \* FileTransport.maxFiles
    dir,           \* log directory: slot -> inode (NoFile when the name is absent)
    files,         \* inode -> content, the sequence of entries on disk
    streams,       \* every WriteStream created so far
    currentStream, \* FileTransport.currentStream (index into streams, or NoStream)
    currentFile,   \* FileTransport.currentFile
    nentries,      \* LogEntry objects created so far; the next one gets id nentries + 1
    last,          \* what the last operation did (its observable effects)
    rotated,       \* history: inode of each file moved to archive 1, oldest first
    afterRotation, \* history: ids of entries written by a call that rotated
    closed,        \* history: Logger.close() has been called
    nfaults,       \* environment failures injected so far
    uncaught,      \* an 'error' event of a stream reached the process unhandled
    proc,          \* the process: "running", "exit0", "exit1", or "startfail"
    logDirOk,      \* the log directory exists or mkdirSync could create it
    reqs,          \* the HTTP requests in order of arrival: the requestId constant of
                   \* requestLogger's closure, req.requestId (prop), the identifier
                   \* the start entry was logged with (startRid), whether the
                   \* 'finish' listener is still to fire, the error that surfaced
                   \* (err) and the status set by the error response handler,
                   \* and the numbers of its start, error and finish entries
    boot,          \* server bootstrap: process.env, the .env file, how far the
                   \* entry module has run and the LoggingConfig resolved
    upload,        \* one POST /api/prints/upload request on its way through
                   \* multer, uploadPrint and the error handlers
    sample         \* one LogEntry handed to the transports in isolation, with
                   \* what the console printed and what the file line parses to

vars == <<config, maxFileSize, maxFiles, dir, files, streams, currentStream,
          currentFile, nentries, last, rotated, afterRotation, closed, nfaults,
          uncaught, proc, logDirOk, reqs, boot, upload, sample>>

\* the bootstrap, the upload route and the isolated entry are not under study
NoBoot == [pc |-> "up"]

NoUpload == [pc |-> "none"]

NoSample == [pc |-> "none"]

\* ---------------------------------------------------------------- helpers
RECURSIVE SizeOf(_)
\* stats.size of a file: the sum of the lengths of the entries on disk
SizeOf(content) ==
    IF content = <<>> THEN 0 ELSE Head(content).size + SizeOf(Tail(content))

\* a lookup that ranks an unknown word above every severity
indexOf_UnknownOnTop(l) ==
    IF \E i \in 1..Len(levels) : levels[i] = l
    THEN (CHOOSE i \in 1..Len(levels) : levels[i] = l) - 1
    ELSE Len(levels)

\* Array.prototype.indexOf on the levels array: 0-based position, -1 when absent
indexOf(l) ==
    IF \E i \in 1..Len(levels) : levels[i] = l
    THEN (CHOOSE i \in 1..Len(levels) : levels[i] = l) - 1
    ELSE -1

shouldLog_Strict(level, configLevel) ==
    indexOf(level) > indexOf(configLevel)

shouldLog_OffByOne(level, configLevel) ==
    indexOf(level) + 1 >= indexOf(configLevel)

\* shouldLog(level, config)
shouldLog(level, configLevel) ==
    indexOf(level) >= indexOf(configLevel)

\* the file system frees an inode that has no name left and no descriptor open on it
reclaim(fs, d, st) ==
    [i \in DOMAIN fs |->
        IF \/ \E n \in DOMAIN d : d[n] = i
           \/ \E j \in DOMAIN st : st[j].st = "open" /\ st[j].ino = i
        THEN fs[i] ELSE <<>>]

\* a fault-free environment: statSync, renameSync and JSON.stringify all succeed
NoFault == [stat |-> FALSE, renameAt |-> -1, ser |-> FALSE]

\* what the environment can do to one call: statSync throws, or the renameSync
\* whose source is slot renameAt throws, or serializing the entry throws
Faults ==
    {[NoFault EXCEPT !.stat = TRUE], [NoFault EXCEPT !.ser = TRUE]}
    \cup {[NoFault EXCEPT !.renameAt = i] : i \in 0..(MaxFilesBound - 1)}

\* the FileTransport and the directory as one value, threaded through the methods;
\* nrot, nstat and rotErr count what one call does (rotations completed, statSync
\* calls, rotations that threw), nunlink the unlinkSync calls, reports what the
\* transport itself prints on the
\* console about a failure (the catch block of ensureLogFile is empty)
Snapshot ==
    [dir |-> dir, files |-> files, streams |-> streams, cur |-> currentStream,
     currentFile |-> currentFile, maxFileSize |-> maxFileSize, maxFiles |-> maxFiles,
     rotated |-> rotated, nrot |-> 0, nstat |-> 0, rotErr |-> 0, reports |-> 0,
     nunlink |-> 0]

\* ---------------------------------------------------------- FileTransport
\* closeStream(): end() the stream (it finishes its buffered writes later) and forget it
closeStream(s) ==
    IF s.cur # NoStream
    THEN [s EXCEPT !.streams[s.cur].ended = TRUE, !.cur = NoStream]
    ELSE s

\* createWriteStream(filePath, {flags: 'a'}): the open is issued, not yet done
createWriteStream(s) ==
    [s EXCEPT !.streams = Append(s.streams,
                  [st |-> "opening", ino |-> NoFile, buf |-> <<>>, ended |-> FALSE]),
              !.cur = Len(s.streams) + 1]

RECURSIVE rotateLoop(_, _, _, _)
\* the for loop of rotateLogs from index i down to 1; limit is this.maxFiles;
\* unlinks counts the passes that took the unlinkSync branch
rotateLoop(d, i, limit, failAt) ==
    IF i < 1 THEN [dir |-> d, threw |-> FALSE, unlinks |-> 0]
    ELSE IF d[i] = NoFile THEN rotateLoop(d, i - 1, limit, failAt)
    ELSE IF i + 1 > limit
         THEN [rotateLoop([d EXCEPT ![i] = NoFile], i - 1, limit, failAt)
                  EXCEPT !.unlinks = @ + 1]
    ELSE IF failAt = i THEN [dir |-> d, threw |-> TRUE, unlinks |-> 0]
    ELSE rotateLoop([d EXCEPT ![i + 1] = d[i], ![i] = NoFile], i - 1, limit, failAt)

rotateArchives_KeepOneMore(d, mf, failAt) ==
    rotateLoop(d, mf, mf + 1, failAt)

rotateArchives_NoShift(d, mf, failAt) ==
    rotateLoop(d, 0, mf, failAt)

\* a rotation that throws every archive away
rotateArchives_DropAll(d, mf, failAt) ==
    [dir |-> [i \in DOMAIN d |-> IF i = ActiveName THEN d[i] ELSE NoFile],
     threw |-> FALSE, unlinks |-> 0]

\* a loop that starts at maxFiles
rotateArchives_FromMaxFiles(d, mf, failAt) ==
    rotateLoop(d, mf, mf, failAt)

\* "Rotate existing files": the loop started at maxFiles - 1
rotateArchives(d, mf, failAt) ==
    rotateLoop(d, mf - 1, mf, failAt)

RECURSIVE ensureLogFile(_, _)
RECURSIVE rotateLogs(_, _)
rotateLogs_NoReopen(s, f) ==
    LET s1 == closeStream(s)
        r  == rotateArchives(s1.dir, s1.maxFiles, f.renameAt)
    IN  [s1 EXCEPT !.dir = [r.dir EXCEPT ![1] = r.dir[ActiveName],
                                         ![ActiveName] = NoFile],
                   !.rotated = Append(@, r.dir[ActiveName]),
                   !.nrot = @ + 1]

\* the rotation check rotating already at the limit
exceedsMaxFileSize_AtLimit(size, limit) == size >= limit

\* the rotation check of ensureLogFile: stats.size > this.maxFileSize
exceedsMaxFileSize(size, limit) == size > limit

\* rotateLogs(); a renameSync that throws leaves through ensureLogFile's catch
rotateLogs(s, f) ==
    LET r  == rotateArchives(s.dir, s.maxFiles, f.renameAt)
        s1 == [closeStream(s) EXCEPT !.nunlink = @ + r.unlinks]
    IN  IF r.threw THEN [s1 EXCEPT !.dir = r.dir, !.rotErr = @ + 1]
        ELSE IF r.dir[ActiveName] = NoFile
             THEN ensureLogFile([s1 EXCEPT !.dir = r.dir, !.nrot = @ + 1], NoFault)
        ELSE IF f.renameAt = ActiveName
             THEN [s1 EXCEPT !.dir = r.dir, !.rotErr = @ + 1]
        ELSE ensureLogFile(
                 [s1 EXCEPT !.dir = [r.dir EXCEPT ![1] = r.dir[ActiveName],
                                                  ![ActiveName] = NoFile],
                            !.rotated = Append(@, r.dir[ActiveName]),
                            !.nrot = @ + 1],
                 NoFault)

\* ensureLogFile(): make sure a stream exists, then stat and rotate when oversized
ensureLogFile(s, f) ==
    LET s1 == IF s.currentFile # filePath
              THEN [closeStream(s) EXCEPT !.currentFile = filePath]
              ELSE s
        s2 == IF s1.cur = NoStream THEN createWriteStream(s1) ELSE s1
        s3 == [s2 EXCEPT !.nstat = @ + 1]
    IN  IF f.stat \/ s3.dir[ActiveName] = NoFile THEN s3
        ELSE IF exceedsMaxFileSize(SizeOf(s3.files[s3.dir[ActiveName]]),
                                   s3.maxFileSize)
             THEN rotateLogs(s3, f)
        ELSE s3

\* FileTransport.log(entry): result state, whether it threw, whether it wrote
fileLog(s, entry, f) ==
    LET s1 == ensureLogFile(s, f)
    IN  IF s1.cur = NoStream
        THEN [s |-> s1, raised |-> FALSE, wrote |-> FALSE]
        ELSE IF f.ser
        THEN [s |-> s1, raised |-> TRUE, wrote |-> FALSE]
        ELSE IF s1.streams[s1.cur].st \in {"opening", "open"}
        THEN [s |-> [s1 EXCEPT !.streams[s1.cur].buf = Append(@, entry)],
              raised |-> FALSE, wrote |-> TRUE]
        ELSE [s |-> s1, raised |-> FALSE, wrote |-> FALSE]

\* ------------------------------------------------------------------- Init
\* content a previous run left behind: one old entry of the given length
OldContent(n) == <<[id |-> 0, size |-> n]>>

\* log directories a previous run can have left: k archives (none, or as many as
\* are retained; archive i is inode i, rotated before archive i - 1), and the active
\* file absent (a = 0), within the threshold (a = 1) or over it (a = 2)
PreDir(k, a) ==
    [i \in 0..(MaxFilesBound + 2) |->
        IF i = ActiveName THEN (IF a = 0 THEN NoFile ELSE k + 1)
        ELSE IF i <= k THEN i ELSE NoFile]

PreFiles(k, a, mfs) ==
    [i \in 1..(k + (IF a = 0 THEN 0 ELSE 1)) |->
        IF i <= k THEN OldContent(1)
        ELSE IF a = 1 THEN OldContent(1) ELSE OldContent(mfs + 1)]

\* the state the FileTransport constructor starts from
PreState(k, a, mfs, mf) ==
    [dir |-> PreDir(k, a), files |-> PreFiles(k, a, mfs), streams |-> <<>>,
     cur |-> NoStream, currentFile |-> "", maxFileSize |-> mfs, maxFiles |-> mf,
     rotated |-> [j \in 1..k |-> k - j + 1], nrot |-> 0, nstat |-> 0, rotErr |-> 0,
     reports |-> 0, nunlink |-> 0]

\* what a Logger is constructed with: the resolved level, whether the file
\* transport is enabled, the rotation parameters, and the state of the active file
\* a previous run left (see PreDir)
Configs ==
    [level : ConfigLevels, enableFileTransport : BOOLEAN,
     maxFileSize : Thresholds, maxFiles : 1..MaxFilesBound, active : 0..2]

\* ---------------------------------------------------------------- actions
\* the record left in `last` by a step of the event loop that is not a Logger call;
\* for a call: the LogEntry (level, id, size), which transports were invoked, what
\* the file transport did, and for the HTTP middleware the request (req), the
\* requestId put in the metadata (rid), the statusCode, the error put in the
\* options (err), the error handed to next() (nextErr), whether the middleware
\* sent a response itself, and the requestId of the options, which createLogEntry
\* copies into the entry's requestId field and the transports print as a tag
Io ==
    [kind |-> "io", level |-> "info", id |-> 0, created |-> FALSE,
     console |-> FALSE, file |-> FALSE, wrote |-> FALSE, raised |-> FALSE,
     size |-> 0, stats |-> 0, rotations |-> 0, rotErr |-> 0, reports |-> 0,
     req |-> 0, rid |-> NoId, status |-> 0, err |-> NoError, nextErr |-> NoError,
     responded |-> FALSE, requestId |-> NoId, unlinks |-> 0]

\* a Logger call made outside the HTTP middleware
NoMeta ==
    [req |-> 0, rid |-> NoId, status |-> 0, err |-> NoError, nextErr |-> NoError,
     requestId |-> NoId]

\* new Logger(): getLoggingConfig(), then the FileTransport constructor
\* (which calls ensureLogFile) when the file transport is enabled
InitWith(c, k) ==
        LET lv == c.level
            en == c.enableFileTransport
            mfs == c.maxFileSize
            mf == c.maxFiles
            s0 == PreState(k, c.active, mfs, mf)
            s  == IF en THEN ensureLogFile(s0, NoFault) ELSE s0
        IN  /\ config = [level |-> lv, enableConsole |-> TRUE,
                         enableFileTransport |-> en]
            /\ maxFileSize = mfs
            /\ maxFiles = mf
            /\ dir = s.dir
            /\ files = reclaim(s.files, s.dir, s.streams)
            /\ streams = s.streams
            /\ currentStream = s.cur
            /\ currentFile = s.currentFile
            /\ nentries = 0
            /\ last = [Io EXCEPT !.kind = "new", !.stats = s.nstat,
                                 !.rotations = s.nrot, !.unlinks = s.nunlink]
            /\ rotated = s.rotated
            /\ afterRotation = {}
            /\ closed = FALSE
            /\ nfaults = 0
            /\ uncaught = FALSE
            /\ proc = "running"
            /\ logDirOk = TRUE
            /\ reqs = <<>>
            /\ boot = NoBoot
            /\ upload = NoUpload
            /\ sample = NoSample

\* the logger of a process started with any configuration, on any log directory
Init ==
    \E c \in Configs : \E k \in {0, c.maxFiles} : InitWith(c, k)

\* getLoggingConfig() when the log directory is absent and mkdirSync throws: the
\* exception leaves the field initializer of Logger, the import of logger.js
\* fails and no Logger exists; config is what the environment asked for
InitMkdirFails ==
    \E c \in Configs :
        /\ config = [level |-> c.level, enableConsole |-> TRUE,
                     enableFileTransport |-> c.enableFileTransport]
        /\ maxFileSize = c.maxFileSize
        /\ maxFiles = c.maxFiles
        /\ dir = PreDir(0, 0)
        /\ files = <<>>
        /\ streams = <<>>
        /\ currentStream = NoStream
        /\ currentFile = ""
        /\ nentries = 0
        /\ last = [Io EXCEPT !.kind = "new"]
        /\ rotated = <<>>
        /\ afterRotation = {}
        /\ closed = FALSE
        /\ nfaults = 1
        /\ uncaught = TRUE
        /\ proc = "startfail"
        /\ logDirOk = FALSE
        /\ reqs = <<>>
        /\ boot = NoBoot
        /\ upload = NoUpload
        /\ sample = NoSample

\* the event loop takes the next event: the process is alive and no exception
\* is on its way to the 'uncaughtException' handler
Running == proc = "running" /\ ~uncaught

\* Logger.log(level, message, options): the transport state after it and what it
\* did; below the threshold it returns before createLogEntry
loggerLog(s, level, size, f, id) ==
    IF ~shouldLog(level, config.level)
    THEN [s |-> s, created |-> FALSE, console |-> FALSE, file |-> FALSE,
          wrote |-> FALSE, raised |-> FALSE]
    ELSE LET r == IF config.enableFileTransport
                  THEN fileLog(s, [id |-> id, size |-> size], f)
                  ELSE [s |-> s, raised |-> FALSE, wrote |-> FALSE]
         IN  [s |-> r.s, created |-> TRUE, console |-> config.enableConsole,
              file |-> config.enableFileTransport, wrote |-> r.wrote,
              raised |-> r.raised]

RECURSIVE exitOutcomes(_, _, _)
\* process.exit(): what each open stream has handed to the thread pool (one chunk,
\* or several with writev) may or may not reach the disk before the process is
\* gone; everything else that is buffered is lost
exitOutcomes(i, st, fs) ==
    IF i > Len(st) THEN {[streams |-> st, files |-> fs]}
    ELSE IF st[i].st = "open" /\ st[i].buf # <<>>
    THEN UNION {exitOutcomes(i + 1,
                    [st EXCEPT ![i].buf = SubSeq(@, k + 1, Len(@))],
                    [fs EXCEPT ![st[i].ino] = @ \o SubSeq(st[i].buf, 1, k)])
                : k \in 0..Len(st[i].buf)}
    ELSE exitOutcomes(i + 1, st, fs)

\* a handler that makes one Logger call and then, unless the call threw,
\* closes the logger (doClose) and leaves the process in state exitAs; u is the
\* upload request as the handler leaves it
CallWith(kind, level, size, f, doClose, exitAs, meta, u) ==
    /\ proc = "running"
    /\ \E r \in {loggerLog(Snapshot, level, size, f, nentries + 1)} :
       \E s \in {IF doClose /\ ~r.raised /\ config.enableFileTransport
                 THEN closeStream(r.s) ELSE r.s} :
       \E x \in IF exitAs # "running" /\ ~r.raised
                THEN exitOutcomes(1, s.streams, reclaim(s.files, s.dir, s.streams))
                ELSE {[streams |-> s.streams,
                       files |-> IF r.created
                                 THEN reclaim(s.files, s.dir, s.streams)
                                 ELSE s.files]} :
            /\ nentries' = IF r.created THEN nentries + 1 ELSE nentries
            /\ last' = [Io EXCEPT !.kind = kind, !.level = level,
                                  !.id = IF r.created THEN nentries + 1 ELSE 0,
                                  !.created = r.created, !.console = r.console,
                                  !.file = r.file, !.wrote = r.wrote,
                                  !.raised = r.raised,
                                  !.size = IF r.created THEN size ELSE 0,
                                  !.stats = r.s.nstat, !.rotations = r.s.nrot,
                                  !.rotErr = r.s.rotErr, !.reports = r.s.reports,
                                  !.unlinks = r.s.nunlink,
                                  !.req = meta.req, !.rid = meta.rid,
                                  !.status = meta.status, !.err = meta.err,
                                  !.nextErr = meta.nextErr,
                                  !.requestId = meta.requestId]
            /\ dir' = s.dir
            /\ files' = x.files
            /\ streams' = x.streams
            /\ currentStream' = s.cur
            /\ currentFile' = s.currentFile
            /\ rotated' = s.rotated
            /\ afterRotation' = IF r.wrote /\ r.s.nrot > 0
                                THEN afterRotation \cup {nentries + 1}
                                ELSE afterRotation
            /\ closed' = (closed \/ (doClose /\ ~r.raised))
            /\ proc' = IF r.raised THEN proc ELSE exitAs
    /\ nfaults' = IF f = NoFault THEN nfaults ELSE nfaults + 1
    /\ upload' = u
    /\ UNCHANGED <<config, maxFileSize, maxFiles, logDirOk, boot, sample>>

\* the same for a handler that has nothing to do with the upload route
Call(kind, level, size, f, doClose, exitAs, meta) ==
    CallWith(kind, level, size, f, doClose, exitAs, meta, upload)

\* the run is cut off when MaxEntries entries have been created: a call that
\* would create one more is not taken
Bounded(level) == shouldLog(level, config.level) => nentries < MaxEntries

\* Logger.log(level, message, options), reached through debug/info/warn/error
LoggerLog(level, size, f) ==
    /\ ~uncaught
    /\ Bounded(level)
    /\ Call("log", level, size, f, FALSE, "running", NoMeta)
    /\ UNCHANGED <<uncaught, reqs>>

\* a log call in a healthy environment
Log ==
    \E level \in LogLevel, size \in EntryLens : LoggerLog(level, size, NoFault)

\* a log call during which the environment fails somewhere
LogFaulty ==
    /\ nfaults < MaxFaults
    /\ \E level \in LogLevel, size \in EntryLens, f \in Faults :
          LoggerLog(level, size, f)

\* Logger.close(): FileTransport.close() -> closeStream()
Close ==
    /\ Running
    /\ ~closed
    /\ closed' = TRUE
    /\ LET s == IF config.enableFileTransport THEN closeStream(Snapshot) ELSE Snapshot
       IN  /\ streams' = s.streams
           /\ currentStream' = s.cur
    /\ last' = [Io EXCEPT !.kind = "close"]
    /\ UNCHANGED <<config, maxFileSize, maxFiles, dir, files, currentFile, nentries,
                   rotated, afterRotation, nfaults, uncaught, proc, logDirOk, reqs,
                   boot, upload, sample>>

\* process.on('SIGTERM' | 'SIGINT'): logger.info, logger.close(), process.exit(0)
Shutdown ==
    /\ ~uncaught
    /\ Bounded("info")
    /\ \E size \in EntryLens :
          Call("signal", "info", size, NoFault, TRUE, "exit0", NoMeta)
    /\ UNCHANGED <<uncaught, reqs>>

\* process.on('unhandledRejection'): logger.error, and the process goes on
UnhandledRejection ==
    /\ ~uncaught
    /\ Bounded("error")
    /\ \E size \in EntryLens :
          Call("rejection", "error", size, NoFault, FALSE, "running", NoMeta)
    /\ UNCHANGED <<uncaught, reqs>>

\* process.on('uncaughtException'): logger.error, process.exit(1); the exception
\* is one thrown anywhere in the application, or the 'error' event of a stream
UncaughtException ==
    /\ Bounded("error")
    /\ \E size \in EntryLens :
          Call("uncaught", "error", size, NoFault, FALSE, "exit1", NoMeta)
    /\ uncaught' = FALSE
    /\ UNCHANGED reqs

\* the open issued by createWriteStream completes: flag 'a' creates the file when
\* the name is absent, and the descriptor then follows that inode
StreamOpen(i) ==
    /\ Running
    /\ streams[i].st = "opening"
    /\ IF dir[ActiveName] = NoFile
       THEN /\ files' = Append(files, <<>>)
            /\ dir' = [dir EXCEPT ![ActiveName] = Len(files) + 1]
            /\ streams' = [streams EXCEPT ![i].st = "open", ![i].ino = Len(files) + 1]
       ELSE /\ streams' = [streams EXCEPT ![i].st = "open", ![i].ino = dir[ActiveName]]
            /\ UNCHANGED <<dir, files>>
    /\ last' = Io
    /\ UNCHANGED <<config, maxFileSize, maxFiles, currentStream, currentFile, nentries,
                   rotated, afterRotation, closed, nfaults, uncaught, proc, logDirOk,
                   reqs, boot, upload, sample>>

\* one buffered chunk of currentStream.write(logLine) reaches the disk
StreamFlush(i) ==
    /\ Running
    /\ streams[i].st = "open"
    /\ streams[i].buf # <<>>
    /\ files' = [files EXCEPT ![streams[i].ino] = Append(@, Head(streams[i].buf))]
    /\ streams' = [streams EXCEPT ![i].buf = Tail(@)]
    /\ last' = Io
    /\ UNCHANGED <<config, maxFileSize, maxFiles, dir, currentStream, currentFile,
                   nentries, rotated, afterRotation, closed, nfaults, uncaught, proc,
                   logDirOk, reqs, boot, upload, sample>>

\* a WriteStream after 'close'
ClosedStream == [st |-> "closed", ino |-> NoFile, buf |-> <<>>, ended |-> TRUE]

\* a stream that was end()ed has written everything: the descriptor is released
StreamFinish(i) ==
    /\ Running
    /\ streams[i].st = "open"
    /\ streams[i].ended
    /\ streams[i].buf = <<>>
    /\ streams' = [streams EXCEPT ![i] = ClosedStream]
    /\ files' = reclaim(files, dir, streams')
    /\ last' = Io
    /\ UNCHANGED <<config, maxFileSize, maxFiles, dir, currentStream,
                   currentFile, nentries, rotated, afterRotation, closed, nfaults,
                   uncaught, proc, logDirOk, reqs, boot, upload, sample>>

\* the open or a write of a stream fails: the stream is destroyed and, no 'error'
\* listener being attached, the event surfaces as an uncaught exception
StreamError(i) ==
    /\ Running
    /\ streams[i].st \in {"opening", "open"}
    /\ streams' = [streams EXCEPT ![i].st = "errored", ![i].buf = <<>>,
                                  ![i].ino = NoFile]
    /\ files' = reclaim(files, dir, streams')
    /\ nfaults < MaxFaults
    /\ nfaults' = nfaults + 1
    /\ uncaught' = TRUE
    /\ last' = [Io EXCEPT !.kind = "streamerror"]
    /\ UNCHANGED <<config, maxFileSize, maxFiles, dir, currentStream,
                   currentFile, nentries, rotated, afterRotation, closed, proc,
                   logDirOk, reqs, boot, upload, sample>>

\* ---------------------------------------------------------- HTTP middleware
\* generateRequestId(): uuidv4() returns an identifier not handed out before
generateRequestId ==
    RequestIds \ {reqs[j].requestId : j \in DOMAIN reqs}

finishLevel_Strict(statusCode) ==
    IF statusCode > 500 THEN "error"
    ELSE IF statusCode > 400 THEN "warn" ELSE "info"

\* the logLevel of the 'finish' listener
finishLevel(statusCode) ==
    IF statusCode >= 500 THEN "error"
    ELSE IF statusCode >= 400 THEN "warn" ELSE "info"

finishRequestId_Latest(r) ==
    reqs[Len(reqs)].requestId

\* the requestId the 'finish' listener of request r logs: the constant of its closure
finishRequestId(r) ==
    reqs[r].requestId

errorLogger_Swallow(prop, e) ==
    [level |-> "error", err |-> e, nextErr |-> NoError,
     rid |-> IF prop # NoId THEN prop ELSE UnknownId]

\* errorLogger(err, req, _res, next), prop being req.requestId: what it logs and
\* what it hands to next()
errorLogger(prop, e) ==
    [level |-> "error", err |-> e, nextErr |-> e,
     rid |-> IF prop # NoId THEN prop ELSE UnknownId]

\* the number of the entry a call at this level creates now, 0 when the level is
\* below the threshold and Logger.log returns before createLogEntry
entryId(level) ==
    IF shouldLog(level, config.level) THEN nentries + 1 ELSE 0

\* a response whose 'finish' listener stays armed after it has run
afterFinish_StillListening(req, id) ==
    [req EXCEPT !.finishId = id]

\* the request once the 'finish' event of its response has been emitted and the
\* listener has logged entry id (0: below the threshold); a response emits
\* 'finish' once
afterFinish(req, id) ==
    [req EXCEPT !.listening = FALSE, !.finishId = id]

\* requestLogger(req, res, next): assigns the identifier, logs the start entry and
\* registers the 'finish' listener
RequestStart ==
    /\ Running
    /\ Bounded("info")
    /\ Len(reqs) < MaxRequests
    /\ \E requestId \in generateRequestId, size \in EntryLens :
          /\ reqs' = Append(reqs, [requestId |-> requestId, prop |-> requestId,
                                   startRid |-> requestId, listening |-> TRUE,
                                   err |-> NoError, status |-> 0,
                                   startId |-> entryId("info"), finishId |-> 0,
                                   errorId |-> 0])
          /\ Call("start", "info", size, NoFault, FALSE, "running",
                  [NoMeta EXCEPT !.req = Len(reqs) + 1, !.rid = requestId])
    /\ UNCHANGED uncaught

\* express.json() rejects the body of a new request: requestLogger, registered
\* after it, is skipped and the error goes straight to errorLogger and then to
\* the error response handler (status 500)
BodyParseError ==
    /\ Running
    /\ Bounded("error")
    /\ Len(reqs) < MaxRequests
    /\ \E e \in Errors, size \in EntryLens :
          /\ reqs' = Append(reqs, [requestId |-> NoId, prop |-> NoId,
                                   startRid |-> NoId, listening |-> FALSE,
                                   err |-> e, status |-> 500,
                                   startId |-> 0, finishId |-> 0,
                                   errorId |-> entryId("error")])
          /\ \E x \in {errorLogger(NoId, e)} :
                Call("reqerror", x.level, size, NoFault, FALSE, "running",
                     [NoMeta EXCEPT !.req = Len(reqs) + 1, !.rid = x.rid,
                                    !.err = x.err, !.nextErr = x.nextErr])
    /\ UNCHANGED uncaught

\* a route handler of request r fails: errorLogger, then the error response
\* handler answers with status 500
RouteError(r) ==
    /\ Running
    /\ Bounded("error")
    /\ reqs[r].listening
    /\ reqs[r].status = 0
    /\ \E e \in Errors, size \in EntryLens :
          /\ reqs' = [reqs EXCEPT ![r].err = e, ![r].status = 500,
                                  ![r].errorId = entryId("error")]
          /\ \E x \in {errorLogger(reqs[r].prop, e)} :
                Call("reqerror", x.level, size, NoFault, FALSE, "running",
                     [NoMeta EXCEPT !.req = r, !.rid = x.rid, !.err = x.err,
                                    !.nextErr = x.nextErr])
    /\ UNCHANGED uncaught

\* the 'finish' event of the response of request r: the status is the one the
\* error response handler set, or the one a route handler answers with
ResponseFinish(r) ==
    /\ Running
    /\ reqs[r].listening
    /\ \E statusCode \in IF reqs[r].status # 0 THEN {reqs[r].status} ELSE StatusCodes,
          size \in EntryLens :
          /\ Bounded(finishLevel(statusCode))
          /\ reqs' = [reqs EXCEPT
                          ![r] = afterFinish(@, entryId(finishLevel(statusCode)))]
          /\ Call("finish", finishLevel(statusCode), size, NoFault, FALSE, "running",
                  [NoMeta EXCEPT !.req = r, !.rid = finishRequestId(r),
                                 !.status = statusCode])
    /\ UNCHANGED uncaught

\* ------------------------------------------------------- server bootstrap
\* an environment variable that is not set
Undefined == "undefined"

\* process.env as the server is started: the variables getLoggingConfig reads
ProcessEnvs ==
    [NODE_ENV : {Undefined, "production", "development"},
     LOG_LEVEL : {Undefined, "", "warn", "debug"},
     LOG_DIR : {Undefined, "/data/logs"},
     LOG_FORMAT : {Undefined, "json"},
     ENABLE_FILE_LOGGING : {Undefined, "true"}]

\* the .env file in the working directory: the same variables, each one present
\* or not
DotenvFiles ==
    [NODE_ENV : {Undefined, "production"},
     LOG_LEVEL : {Undefined, "error"},
     LOG_DIR : {Undefined, "./logs"},
     LOG_FORMAT : {Undefined, "json"},
     ENABLE_FILE_LOGGING : {Undefined, "true"}]

\* a value the || of JavaScript passes over: undefined or the empty string
falsy(v) == v \in {Undefined, ""}

\* the threshold that prefers the default to the override
logLevel_DefaultFirst(env) ==
    IF env.NODE_ENV = "production" THEN "info"
    ELSE IF falsy(env.LOG_LEVEL) THEN "debug" ELSE env.LOG_LEVEL

\* const logLevel of getLoggingConfig: LOG_LEVEL, or the default of the mode
logLevel(env) ==
    LET mode == IF falsy(env.NODE_ENV) THEN "development" ELSE env.NODE_ENV
    IN  IF ~falsy(env.LOG_LEVEL) THEN env.LOG_LEVEL
        ELSE IF mode = "production" THEN "info" ELSE "debug"

\* getLoggingConfig() evaluated on the process environment env
getLoggingConfig(env) ==
    LET mode == IF falsy(env.NODE_ENV) THEN "development" ELSE env.NODE_ENV
    IN  [level |-> logLevel(env),
         enableConsole |-> TRUE,
         enableFileTransport |->
             (mode = "production" \/ env.ENABLE_FILE_LOGGING = "true"),
         logDir |-> IF falsy(env.LOG_DIR) THEN "cwd/logs" ELSE env.LOG_DIR,
         logFileName |-> filePath,
         logFormat |-> IF env.LOG_FORMAT = "json" THEN "json" ELSE "text"]

\* dotenv.config(): every variable of the .env file that process.env does not
\* have yet is added; a variable process.env already has is left as it is
dotenvConfig(env, file) ==
    [k \in DOMAIN env |-> IF env[k] = Undefined THEN file[k] ELSE env[k]]

\* the state of the Logger's fields before logger.js has been evaluated
Unconstructed ==
    /\ config = [level |-> "debug", enableConsole |-> TRUE,
                 enableFileTransport |-> FALSE]
    /\ maxFileSize = MaxEntries
    /\ maxFiles = MaxFilesBound
    /\ dir = PreDir(0, 0)
    /\ files = <<>>
    /\ streams = <<>>
    /\ currentStream = NoStream
    /\ currentFile = ""
    /\ nentries = 0
    /\ last = [Io EXCEPT !.kind = "new"]
    /\ rotated = <<>>
    /\ afterRotation = {}
    /\ closed = FALSE
    /\ nfaults = 0
    /\ uncaught = FALSE
    /\ proc = "running"
    /\ logDirOk = TRUE
    /\ reqs = <<>>

\* node starts the entry module with some environment and some .env file
InitBoot ==
    /\ Unconstructed
    /\ \E env \in ProcessEnvs, file \in DotenvFiles :
          boot = [pc |-> "start", env |-> env, file |-> file,
                  resolved |-> getLoggingConfig(env), nresolved |-> 0,
                  order |-> <<>>]
    /\ upload = NoUpload
    /\ sample = NoSample

\* the import of ./utils/logger.js, evaluated before the body of the entry
\* module: `new Logger()` resolves the configuration from process.env as it is
\* now and constructs the file transport when it is enabled
ImportLogger ==
    /\ boot.pc = "start"
    /\ LET c  == getLoggingConfig(boot.env)
           s0 == PreState(0, 0, maxFileSize, maxFiles)
           s  == IF c.enableFileTransport THEN ensureLogFile(s0, NoFault) ELSE s0
       IN  /\ boot' = [boot EXCEPT !.pc = "imported", !.resolved = c,
                                   !.nresolved = @ + 1,
                                   !.order = Append(@, "getLoggingConfig")]
           /\ config' = [level |-> c.level, enableConsole |-> c.enableConsole,
                         enableFileTransport |-> c.enableFileTransport]
           /\ streams' = s.streams
           /\ currentStream' = s.cur
           /\ currentFile' = s.currentFile
           /\ last' = [Io EXCEPT !.kind = "new", !.stats = s.nstat]
    /\ UNCHANGED <<maxFileSize, maxFiles, dir, files, nentries, rotated,
                   afterRotation, closed, nfaults, uncaught, proc, logDirOk, reqs,
                   upload, sample>>

\* the first statement of the entry module: dotenv.config()
DotenvConfig ==
    /\ boot.pc = "imported"
    /\ boot' = [boot EXCEPT !.pc = "up",
                            !.env = dotenvConfig(boot.env, boot.file),
                            !.order = Append(@, "dotenv.config")]
    /\ UNCHANGED <<config, maxFileSize, maxFiles, dir, files, streams,
                   currentStream, currentFile, nentries, last, rotated,
                   afterRotation, closed, nfaults, uncaught, proc, logDirOk, reqs,
                   upload, sample>>

NextBoot ==
    \/ ImportLogger
    \/ DotenvConfig

SpecBoot == InitBoot /\ [][NextBoot]_vars

\* ------------------------------------------------ POST /api/prints/upload
\* sizes are counted in megabytes
MAX_FILE_SIZE == 5

ALLOWED_TYPES == {"image/png", "image/jpeg", "image/jpg", "image/webp"}

\* the limits multer is configured with
limits == [fileSize |-> 5]

\* what a client can post: no file part, or a file of some size and MIME type
UploadFiles ==
    {[present |-> FALSE, size |-> 0, mimetype |-> "none"]}
    \cup [present : {TRUE},
          size : {MAX_FILE_SIZE - 1, MAX_FILE_SIZE, MAX_FILE_SIZE + 1},
          mimetype : {"image/png", "application/pdf"}]

\* upload.single('image') with memory storage: a file over limits.fileSize is
\* refused with a MulterError handed to next(); whether a file of exactly
\* limits.fileSize is refused depends on the multipart parser multer is built on
multerSingle(file) ==
    IF ~file.present THEN {"ok"}
    ELSE IF file.size > limits.fileSize THEN {"LIMIT_FILE_SIZE"}
    ELSE IF file.size = limits.fileSize THEN {"ok", "LIMIT_FILE_SIZE"}
    ELSE {"ok"}

\* a validation that does not look at the MIME type
validate_NoTypeCheck(file) ==
    IF ~file.present THEN "nofile"
    ELSE IF file.size > MAX_FILE_SIZE THEN "toolarge"
    ELSE "ok"

\* the three checks of uploadPrint, in order
validate(file) ==
    IF ~file.present THEN "nofile"
    ELSE IF file.mimetype \notin ALLOWED_TYPES THEN "badtype"
    ELSE IF file.size > MAX_FILE_SIZE THEN "toolarge"
    ELSE "ok"

\* one step of the upload request that makes one Logger call and leaves the
\* request as u
UploadStep(from, level, u) ==
    /\ Running
    /\ upload.pc = from
    /\ \E size \in EntryLens :
          CallWith("upload", level, size, NoFault, FALSE, "running",
                   [NoMeta EXCEPT !.req = upload.req], u)
    /\ UNCHANGED <<uncaught, reqs>>

\* the response of the upload request is sent with this status
respond(u, status) ==
    [u EXCEPT !.pc = "done", !.status = status, !.responses = @ + 1]

\* the request arrives: requestLogger assigns the identifier, logs the start
\* entry and registers the 'finish' listener
UploadArrive ==
    /\ Running
    /\ upload.pc = "none"
    /\ Len(reqs) < MaxRequests
    /\ \E requestId \in generateRequestId, size \in EntryLens, file \in UploadFiles :
          /\ reqs' = Append(reqs, [requestId |-> requestId, prop |-> requestId,
                                   startRid |-> requestId, listening |-> TRUE,
                                   err |-> NoError, status |-> 0,
                                   startId |-> entryId("info"), finishId |-> 0,
                                   errorId |-> 0])
          /\ CallWith("start", "info", size, NoFault, FALSE, "running",
                      [NoMeta EXCEPT !.req = Len(reqs) + 1, !.rid = requestId],
                      [pc |-> "multer", req |-> Len(reqs) + 1, file |-> file,
                       status |-> 0, responses |-> 0, r2 |-> 0,
                       invoked |-> FALSE, r2result |-> "none"])
    /\ UNCHANGED uncaught

\* upload.single('image') accepts the request and uploadPrint logs that it was
\* received
UploadAccepted ==
    /\ upload.pc = "multer"
    /\ "ok" \in multerSingle(upload.file)
    /\ UploadStep("multer", "info",
                  [upload EXCEPT !.pc = "validate", !.invoked = TRUE])

\* upload.single('image') refuses the file: the MulterError goes to errorLogger,
\* which logs it, and then to the error response handler, which answers 500;
\* uploadPrint is not called
UploadRefused ==
    /\ Running
    /\ upload.pc = "multer"
    /\ \E e \in multerSingle(upload.file) \ {"ok"}, size \in EntryLens :
          /\ reqs' = [reqs EXCEPT ![upload.req].err = e, ![upload.req].status = 500,
                                  ![upload.req].errorId = entryId("error")]
          /\ \E x \in {errorLogger(reqs[upload.req].prop, e)} :
                CallWith("reqerror", x.level, size, NoFault, FALSE, "running",
                         [NoMeta EXCEPT !.req = upload.req, !.rid = x.rid,
                                        !.err = x.err, !.nextErr = x.nextErr],
                         respond(upload, 500))
    /\ UNCHANGED uncaught

\* uploadPrint finds no file, a type that is not allowed or a file that is too
\* large: it logs a warning and answers 400
UploadRejected ==
    /\ upload.pc = "validate"
    /\ validate(upload.file) # "ok"
    /\ UploadStep("validate", "warn", respond(upload, 400))

\* uploadPrint accepts the file and logs that it is uploading
UploadValid ==
    /\ upload.pc = "validate"
    /\ validate(upload.file) = "ok"
    /\ UploadStep("validate", "info", [upload EXCEPT !.pc = "r2call"])

\* uploadToR2(fileName, buffer, mimetype) is called: it logs and sends the
\* PutObjectCommand
UploadToR2 ==
    UploadStep("r2call", "info", [upload EXCEPT !.pc = "r2wait", !.r2 = @ + 1])

\* the PutObjectCommand succeeds and uploadToR2 logs the success
R2Done ==
    UploadStep("r2wait", "info",
               [upload EXCEPT !.pc = "r2ok", !.r2result = "ok"])

\* the PutObjectCommand fails: uploadToR2 logs the error and throws
R2Failed ==
    UploadStep("r2wait", "error",
               [upload EXCEPT !.pc = "r2failed", !.r2result = "failed"])

\* uploadPrint resumes with the public URL, logs and answers with res.json
UploadSucceeded ==
    UploadStep("r2ok", "info", respond(upload, 200))

\* uploadPrint resumes in its catch block, logs the error and answers 500
UploadFailed ==
    UploadStep("r2failed", "error", respond(upload, 500))

\* the response has been sent: its 'finish' event runs the listener of
\* requestLogger
UploadFinish ==
    /\ Running
    /\ upload.pc = "done"
    /\ reqs[upload.req].listening
    /\ \E size \in EntryLens :
          /\ reqs' = [reqs EXCEPT ![upload.req] =
                          afterFinish(@, entryId(finishLevel(upload.status)))]
          /\ CallWith("finish", finishLevel(upload.status), size, NoFault, FALSE,
                      "running",
                      [NoMeta EXCEPT !.req = upload.req,
                                     !.rid = finishRequestId(upload.req),
                                     !.status = upload.status],
                      [upload EXCEPT !.pc = "finished"])
    /\ UNCHANGED uncaught

NextUpload ==
    \/ UploadArrive
    \/ UploadAccepted
    \/ UploadRefused
    \/ UploadRejected
    \/ UploadValid
    \/ UploadToR2
    \/ R2Done
    \/ R2Failed
    \/ UploadSucceeded
    \/ UploadFailed
    \/ UploadFinish

\* ------------------------------------------------- one entry, two transports
\* JavaScript values, tagged by type; a string is a sequence of characters, "LF"
\* being the line feed
undefinedV == [t |-> "undefined"]

Str(s) == [t |-> "string", s |-> s]

Obj(m) == [t |-> "object", m |-> m]

\* property k of object o; undefined when o has no such property
get(o, k) == IF k \in DOMAIN o.m THEN o.m[k] ELSE undefinedV

\* what a caller can put under a key of the metadata (Record<string, any>)
MetadataValues ==
    {Str(<<"v">>), Str(<<"a", "LF", "b">>), [t |-> "number", n |-> 1],
     [t |-> "NaN"], [t |-> "null"], [t |-> "Date", iso |-> <<"2026">>],
     undefinedV}

\* the error field createLogEntry builds from options.error
EntryErrors ==
    {Obj([message |-> Str(<<"boom">>), stack |-> st, name |-> Str(<<"Error">>)])
        : st \in {undefinedV, Str(<<"at", "LF", "at">>)}}

\* the entries createLogEntry can return: only warn() and error() take an error
LogEntries ==
    {Obj([timestamp |-> Str(<<"2026">>), level |-> Str(<<lv>>), message |-> msg,
          context |-> ctx, error |-> err, metadata |-> md, requestId |-> rid])
        : lv \in LogLevel,
          msg \in {Str(<<"m">>), Str(<<"a", "LF", "b">>)},
          ctx \in {undefinedV, Str(<<"HTTP">>)},
          rid \in {undefinedV, Str(<<"r1">>)},
          err \in {undefinedV} \cup EntryErrors,
          md \in {undefinedV}
                 \cup {Obj([requestId |-> Str(<<"r1">>), extra |-> v])
                           : v \in MetadataValues}}

levelOf(entry) == entry.m.level.s[1]

RECURSIVE escape(_)
\* the characters of a string inside a JSON string literal: a line feed becomes
\* backslash n, a backslash is doubled
escape(s) ==
    IF s = <<>> THEN <<>>
    ELSE (IF Head(s) = "LF" THEN <<"\\", "n">>
          ELSE IF Head(s) = "\\" THEN <<"\\", "\\">>
          ELSE <<Head(s)>>) \o escape(Tail(s))

RECURSIVE unescape(_)
\* the string a JSON string literal stands for
unescape(s) ==
    IF s = <<>> THEN <<>>
    ELSE IF Head(s) = "\\"
    THEN (IF s[2] = "n" THEN <<"LF">> ELSE <<s[2]>>) \o unescape(Tail(Tail(s)))
    ELSE <<Head(s)>> \o unescape(Tail(s))

RECURSIVE stringify(_)
\* JSON.stringify(value) as the JSON text it produces: a property whose value is
\* undefined is left out, NaN is written as null, a Date as the string of its
\* toJSON(), a string as an escaped literal
stringify(v) ==
    IF v.t = "string" THEN [j |-> "string", s |-> escape(v.s)]
    ELSE IF v.t = "number" THEN [j |-> "number", n |-> v.n]
    ELSE IF v.t \in {"NaN", "null"} THEN [j |-> "null"]
    ELSE IF v.t = "Date" THEN [j |-> "string", s |-> escape(v.iso)]
    ELSE [j |-> "object",
          m |-> [k \in {x \in DOMAIN v.m : v.m[x].t # "undefined"}
                    |-> stringify(v.m[k])]]

RECURSIVE parse(_)
\* JSON.parse(text)
parse(j) ==
    IF j.j = "string" THEN Str(unescape(j.s))
    ELSE IF j.j = "number" THEN [t |-> "number", n |-> j.n]
    ELSE IF j.j = "null" THEN [t |-> "null"]
    ELSE Obj([k \in DOMAIN j.m |-> parse(j.m[k])])

RECURSIVE count(_, _)
\* occurrences of character c in string s
count(s, c) ==
    IF s = <<>> THEN 0
    ELSE (IF Head(s) = c THEN 1 ELSE 0) + count(Tail(s), c)

RECURSIVE lineFeeds(_)
\* line feeds in a JSON text (JSON.stringify without indent inserts none itself)
lineFeeds(j) ==
    IF j.j = "string" THEN count(j.s, "LF")
    ELSE IF j.j = "object"
    THEN LET RECURSIVE sum(_)
             sum(K) == IF K = {} THEN 0
                       ELSE LET k == CHOOSE x \in K : TRUE
                            IN  lineFeeds(j.m[k]) + sum(K \ {k})
         IN  sum(DOMAIN j.m)
    ELSE 0

\* ConsoleTransport.log(entry): the console calls it makes, in order; console.error
\* and console.warn write to stderr, console.log and console.debug to stdout
consoleLog(entry) ==
    LET to == IF levelOf(entry) \in {"error", "warn"} THEN "stderr" ELSE "stdout"
    IN  <<[to |-> to, what |-> "header"]>>
        \o (IF levelOf(entry) = "error" /\ entry.m.error # undefinedV
            THEN <<[to |-> to, what |-> "Error"]>>
                 \o (IF entry.m.error.m.stack # undefinedV
                     THEN <<[to |-> to, what |-> "Stack"]>> ELSE <<>>)
            ELSE <<>>)
        \o (IF entry.m.metadata # undefinedV
            THEN <<[to |-> to, what |-> "Metadata"]>> ELSE <<>>)

\* the number of lines FileTransport.formatLog(entry) produces in text format
formatLogLines(entry) ==
    1 + count(entry.m.message.s, "LF")
      + (IF entry.m.error # undefinedV
         THEN 1 + count(entry.m.error.m.message.s, "LF")
                + (IF entry.m.error.m.stack # undefinedV
                   THEN 1 + count(entry.m.error.m.stack.s, "LF") ELSE 0)
         ELSE 0)
      + (IF entry.m.metadata # undefinedV
         THEN Cardinality(DOMAIN stringify(entry.m.metadata).m) + 2 ELSE 0)

\* the logLine of FileTransport.log(entry), before the final line feed
logLine(entry, format) ==
    IF format = "json"
    THEN [format |-> "json", json |-> stringify(entry),
          lines |-> 1 + lineFeeds(stringify(entry))]
    ELSE [format |-> "text", json |-> [j |-> "null"],
          lines |-> formatLogLines(entry)]

\* nothing has been handed to the stream yet
NoLine == [format |-> "none", json |-> [j |-> "null"], lines |-> 0]

\* an entry about to be handed to a console transport and to a file transport
\* of either format
InitEntry ==
    /\ Unconstructed
    /\ boot = NoBoot
    /\ upload = NoUpload
    /\ \E entry \in LogEntries, format \in {"json", "text"} :
          /\ entry.m.error # undefinedV => levelOf(entry) \in {"warn", "error"}
          /\ sample = [pc |-> "entry", entry |-> entry, format |-> format,
                       printed |-> FALSE, console |-> <<>>,
                       written |-> FALSE, line |-> NoLine,
                       parsed |-> undefinedV, read |-> FALSE]

LoggerUnchanged ==
    UNCHANGED <<config, maxFileSize, maxFiles, dir, files, streams, currentStream,
                currentFile, nentries, last, rotated, afterRotation, closed,
                nfaults, uncaught, proc, logDirOk, reqs, boot, upload>>

\* ConsoleTransport.log(entry)
ConsoleTransportLog ==
    /\ sample.pc = "entry"
    /\ ~sample.printed
    /\ sample' = [sample EXCEPT !.printed = TRUE,
                                !.console = consoleLog(sample.entry)]
    /\ LoggerUnchanged

\* FileTransport.log(entry): the line handed to the stream
FileTransportLog ==
    /\ sample.pc = "entry"
    /\ ~sample.written
    /\ sample' = [sample EXCEPT !.written = TRUE,
                                !.line = logLine(sample.entry, sample.format)]
    /\ LoggerUnchanged

\* a reader parses the line of a json log file
ParseLine ==
    /\ sample.pc = "entry"
    /\ sample.written
    /\ sample.format = "json"
    /\ ~sample.read
    /\ sample' = [sample EXCEPT !.read = TRUE, !.parsed = parse(sample.line.json)]
    /\ LoggerUnchanged

NextEntry ==
    \/ ConsoleTransportLog
    \/ FileTransportLog
    \/ ParseLine

SpecEntry == InitEntry /\ [][NextEntry]_vars

Next ==
    \/ Log
    \/ Close
    \/ Shutdown
    \/ UnhandledRejection
    \/ UncaughtException
    \/ \E i \in DOMAIN streams : StreamOpen(i)
    \/ \E i \in DOMAIN streams : StreamFlush(i)
    \/ \E i \in DOMAIN streams : StreamFinish(i)

Spec == Init /\ [][Next]_vars

NextFaulty ==
    \/ Log
    \/ LogFaulty
    \/ Close
    \/ Shutdown
    \/ UnhandledRejection
    \/ UncaughtException
    \/ \E i \in DOMAIN streams : StreamOpen(i)
    \/ \E i \in DOMAIN streams : StreamFlush(i)
    \/ \E i \in DOMAIN streams : StreamFinish(i)
    \/ \E i \in DOMAIN streams : StreamError(i)

SpecFaulty == (Init \/ InitMkdirFails) /\ [][NextFaulty]_vars

\* the Express application: requests pass through requestLogger and errorLogger
NextHttp ==
    \/ RequestStart
    \/ BodyParseError
    \/ \E r \in DOMAIN reqs : RouteError(r)
    \/ \E r \in DOMAIN reqs : ResponseFinish(r)
    \/ \E i \in DOMAIN streams : StreamOpen(i)
    \/ \E i \in DOMAIN streams : StreamFlush(i)
    \/ \E i \in DOMAIN streams : StreamFinish(i)

\* the server is started on an empty log directory; the retention count plays
\* no part in the middleware and is kept at its largest value
InitHttp ==
    \E c \in Configs :
        c.active = 0 /\ c.maxFiles = MaxFilesBound /\ InitWith(c, 0)

SpecHttp == InitHttp /\ [][NextHttp]_vars

\* the same server receiving one upload request
SpecUpload == InitHttp /\ [][NextUpload]_vars

\* the rotation scenario, sizes in units of 20 bytes: maxFileSize = 100 bytes,
\* maxFiles = 2, five info calls of 40 bytes each, on an empty log directory
Scenario == [maxFileSize |-> 5, maxFiles |-> 2, calls |-> 5, entryLen |-> 2]

InitScenario ==
    \E lv \in {"debug", "info"} :
        InitWith([level |-> lv, enableFileTransport |-> TRUE,
                  maxFileSize |-> Scenario.maxFileSize,
                  maxFiles |-> Scenario.maxFiles, active |-> 0], 0)

\* one of the five logger.info calls
ScenarioLog ==
    /\ Running
    /\ nentries < Scenario.calls
    /\ Call("log", "info", Scenario.entryLen, NoFault, FALSE, "running", NoMeta)
    /\ UNCHANGED <<uncaught, reqs>>

NextScenario ==
    \/ ScenarioLog
    \/ \E i \in DOMAIN streams : StreamOpen(i)
    \/ \E i \in DOMAIN streams : StreamFlush(i)
    \/ \E i \in DOMAIN streams : StreamFinish(i)

SpecScenario == InitScenario /\ [][NextScenario]_vars

\* ------------------------------------------------------------ properties
\* the order debug < info < warn < error
Rank == [debug |-> 1, info |-> 2, warn |-> 3, error |-> 4]

\* the active file exists on disk and stat reports more than maxFileSize
Oversized ==
    /\ dir[ActiveName] # NoFile
    /\ SizeOf(files[dir[ActiveName]]) > maxFileSize

\* the slots that hold an archive
Archives == {i \in DOMAIN dir : i # ActiveName /\ dir[i] # NoFile}

\* C1: with a threshold among the four severities, a call at severity L is handed
\* to the console transport iff Rank(L) >= Rank(T), and to the file transport iff
\* that holds and the file transport is enabled.
C1_HandedIffAtLeastThreshold ==
    (last.kind = "log" /\ config.level \in LogLevel) =>
        /\ last.console <=> (Rank[last.level] >= Rank[config.level])
        /\ last.file <=> (/\ config.enableFileTransport
                          /\ Rank[last.level] >= Rank[config.level])

C1_Witness ==
    /\ last.kind = "log"
    /\ last.level = "warn"
    /\ config.level = "warn"
    /\ last.console
    /\ last.file

\* C2: no logging call raises to its caller, whatever fails underneath
\* (statSync, renameSync, the stream, serializing the entry).
C2_NeverRaises ==
    last.kind = "log" => ~last.raised

\* C3: a call strictly below the threshold creates no entry, invokes no transport,
\* performs no stat and no rotation, and leaves directory, files, streams and the
\* transport's handle as they were.
C3_DroppedCallChangesNothing ==
    [][(/\ last'.kind = "log"
        /\ config.level \in LogLevel
        /\ Rank[last'.level] < Rank[config.level])
       => (/\ ~last'.created
           /\ ~last'.console
           /\ ~last'.file
           /\ last'.stats = 0
           /\ last'.rotations = 0
           /\ UNCHANGED <<dir, files, streams, currentStream, currentFile,
                          nentries, rotated>>)]_vars

C3_Witness ==
    /\ last.kind = "log"
    /\ ~last.created
    /\ config.enableFileTransport
    /\ Oversized

\* C4: archives exist only under the names <logFileName>.1 .. <logFileName>.maxFiles,
\* so there are at most maxFiles of them, and the handle the transport writes
\* through is open on the file named <logFileName>.
C4_ArchiveNames ==
    /\ \A i \in Archives : 1 <= i /\ i <= maxFiles
    /\ Cardinality(Archives) <= maxFiles
    /\ config.enableFileTransport => currentFile = filePath
    /\ (currentStream # NoStream /\ streams[currentStream].st = "open")
           => streams[currentStream].ino = dir[ActiveName]

C4_Witness ==
    /\ maxFiles = 2
    /\ Len(rotated) > maxFiles
    /\ Archives = {1, 2}
    /\ currentStream # NoStream
    /\ streams[currentStream].st = "open"
    /\ nentries > 0

\* C5: once more than maxFiles files have been rotated, archives 1..maxFiles all
\* exist, none exists beyond, and the oldest N - maxFiles rotated files are no
\* longer reachable under any name.
C5_RetentionBound ==
    Len(rotated) > maxFiles =>
        /\ Archives = 1..maxFiles
        /\ \A j \in 1..(Len(rotated) - maxFiles) :
               \A n \in DOMAIN dir : dir[n] # rotated[j]

C5_Witness ==
    /\ last.kind = "log"
    /\ last.rotations = 1
    /\ maxFiles = 2
    /\ Len(rotated) > maxFiles

\* C6: a call that reaches the file transport while the active file is over the
\* threshold rotates exactly once and then writes its entry, and that entry
\* shares its file with no entry logged before it.
C6_RotateOnceThenWriteFresh ==
    /\ [][(last'.kind = "log" /\ nentries' = nentries + 1 /\ last'.file /\ Oversized)
          => (/\ last'.rotations = 1
              /\ last'.wrote
              /\ streams'[currentStream'].buf
                     = <<[id |-> nentries', size |-> last'.size]>>)]_vars
    /\ [](\A i \in DOMAIN files : \A p, q \in DOMAIN files[i] :
              (files[i][q].id \in afterRotation /\ p # q)
                  => files[i][p].id > files[i][q].id)

\* C7: whenever the rotation check can fire, the active file is over maxFileSize
\* by at most the length of one entry.
C7_OvershootAtMostOneEntry ==
    dir[ActiveName] # NoFile =>
        SizeOf(files[dir[ActiveName]]) <= maxFileSize + MaxEntryLen

\* C8: running rotateLogs again right after a completed rotation, the active file
\* being absent, leaves every archive where it was.
C8_RotationIdempotent ==
    (last.rotations > 0 /\ dir[ActiveName] = NoFile) =>
        \A i \in DOMAIN dir :
            i # ActiveName => rotateLogs(Snapshot, NoFault).dir[i] = dir[i]

\* C9: however many calls hit an oversized active file and however the stream's
\* I/O interleaves with them, each file is rotated once: no file is archived
\* twice, the archives are exactly the most recently rotated files in order
\* (none evicted early), no call rotates more than once, and every call writes
\* its entry.
C9_SingleRotation ==
    /\ \A a, b \in DOMAIN rotated : a # b => rotated[a] # rotated[b]
    /\ config.enableFileTransport =>
           \A i \in 1..maxFiles :
               dir[i] = IF i <= Len(rotated)
                        THEN rotated[Len(rotated) - i + 1] ELSE NoFile
    /\ (last.kind = "log" /\ last.file) => (last.wrote /\ last.rotations <= 1)

C9_Witness ==
    /\ last.kind = "log"
    /\ last.file
    /\ last.rotations = 0
    /\ (last.id - 1) \in afterRotation
    /\ currentStream # NoStream
    /\ Len(streams[currentStream].buf) = 2

\* C10: after Logger.close() the transport holds no stream and no call writes.
C10_DroppedAfterClose ==
    closed =>
        /\ currentStream = NoStream
        /\ last.kind = "log" => ~last.wrote

\* C11: when the process has exited through the SIGTERM/SIGINT handler,
\* logger.close() has been called, the transport holds no stream, and nothing
\* that was written before the exit (the shutdown entry included) is still
\* sitting unwritten in a stream.
C11_ShutdownFlushesAndReleases ==
    proc = "exit0" =>
        /\ closed
        /\ currentStream = NoStream
        /\ \A i \in DOMAIN streams :
               streams[i].buf = <<>> /\ streams[i].st # "opening"

\* C12: the process has exited with code 1 only after the uncaught-exception
\* entry was emitted at error severity and the transports were closed; the
\* unhandled-rejection handler logs at error severity and leaves the process
\* running.
C12_ExceptionHandlers ==
    /\ proc = "exit1" =>
           (last.kind = "uncaught" /\ last.level = "error" /\ last.console /\ closed)
    /\ last.kind = "rejection" =>
           (last.level = "error" /\ last.console /\ proc = "running")

\* C13: once a write stream has failed, the process keeps running and no later
\* call invokes the file transport.
C13_WriteFailureDisablesFileTransport ==
    (\E i \in DOMAIN streams : streams[i].st = "errored") =>
        /\ proc = "running"
        /\ last.kind # "streamerror" => ~last.file

\* C14: a call during which the rotation threw (renameSync or unlinkSync failed)
\* reports the failure on the console, once.
C14_RotationFailureReportedOnce ==
    last.rotErr > 0 => last.reports = 1

\* C15: when the log directory could not be created the logger is up all the
\* same, with the file transport off.
C15_ConsoleOnlyWithoutLogDir ==
    ~logDirOk => (proc = "running" /\ ~config.enableFileTransport)

\* C16: any two requests that went through requestLogger have different
\* identifiers, and a finish entry carries the identifier its request's start
\* entry was logged with, whatever other requests started or finished in between.
C16_CorrelationIntegrity ==
    /\ \A a, b \in DOMAIN reqs :
           (a # b /\ reqs[a].startRid # NoId /\ reqs[b].startRid # NoId)
               => reqs[a].startRid # reqs[b].startRid
    /\ last.kind = "finish" => last.rid = reqs[last.req].startRid

C16_Witness ==
    /\ last.kind = "finish"
    /\ last.req = 1
    /\ Len(reqs) = 2
    /\ reqs[2].startRid # NoId
    /\ reqs[2].listening

\* C17: the level of a finish entry is error for a status of 500 or more, warn
\* for a status from 400 to 499, and info below 400.
C17_SeverityFromStatus ==
    last.kind = "finish" =>
        /\ last.status >= 500 => last.level = "error"
        /\ (400 <= last.status /\ last.status < 500) => last.level = "warn"
        /\ last.status < 400 => last.level = "info"

C17_Witness ==
    /\ last.kind = "finish"
    /\ last.status = 404
    /\ last.level = "warn"
    /\ last.created

OpenHandles == {i \in DOMAIN streams : streams[i].st = "open"}

\* C19: at no time are two descriptors open on the active file, and once close()
\* has returned no descriptor is open.
C19_SingleOpenHandle ==
    /\ Cardinality({i \in OpenHandles : streams[i].ino = dir[ActiveName]}) <= 1
    /\ last.kind = "close" => OpenHandles = {}

\* the five calls have been made and every stream has written what it was given
ScenarioDone ==
    /\ nentries = Scenario.calls
    /\ \A i \in DOMAIN streams : streams[i].st # "opening" /\ streams[i].buf = <<>>

\* C20: when the scenario is over there is an active file and exactly one
\* archive, .1, so two files in all, and every line in them is a whole entry.
C20_ScenarioOneArchive ==
    ScenarioDone =>
        /\ dir[ActiveName] # NoFile
        /\ Archives = {1}
        /\ Cardinality({n \in DOMAIN dir : dir[n] # NoFile}) <= 2
        /\ \A n \in DOMAIN dir : dir[n] # NoFile =>
               \A p \in DOMAIN files[dir[n]] :
                   files[dir[n]][p].size = Scenario.entryLen

\* C21: parsing the line written for an entry in json format gives back the
\* entry's message, level, context, requestId and metadata exactly, and the
\* entry occupies exactly one line.
C21_JsonRoundTrip ==
    (sample.pc = "entry" /\ sample.read) =>
        /\ \A k \in {"message", "level", "context", "requestId", "metadata"} :
               get(sample.parsed, k) = get(sample.entry, k)
        /\ sample.line.lines = 1

\* the part of C21 that holds: one line per entry, and message, level, context
\* and requestId come back as they were
C21_OneLineAndScalars ==
    (sample.pc = "entry" /\ sample.read) =>
        /\ \A k \in {"message", "level", "context", "requestId"} :
               get(sample.parsed, k) = get(sample.entry, k)
        /\ sample.line.lines = 1

\* C22: the threshold getLoggingConfig resolves is LOG_LEVEL when the process
\* environment sets one, otherwise info in production mode and debug in every
\* other mode.
C22_ThresholdFromEnvironment ==
    [][(boot.pc = "start" /\ boot'.pc = "imported")
          => boot'.resolved.level
                 = IF boot.env.LOG_LEVEL \notin {Undefined, ""}
                   THEN boot.env.LOG_LEVEL
                   ELSE IF boot.env.NODE_ENV = "production" THEN "info"
                   ELSE "debug"]_vars

\* the configuration was resolved in production mode with an explicit override
C22_Witness ==
    /\ boot.pc = "imported"
    /\ boot.env.NODE_ENV = "production"
    /\ boot.env.LOG_LEVEL = "warn"
    /\ boot.resolved.level = "warn"
    /\ config.level = "warn"

\* C23: once the server is up, the configuration the logger resolved (exactly
\* once) is the one that LOG_DIR, LOG_FORMAT and ENABLE_FILE_LOGGING of the .env
\* file produce: the file was loaded before the configuration was resolved.
C23_DotenvInEffect ==
    boot.pc = "up" =>
        /\ boot.nresolved = 1
        /\ boot.order = <<"dotenv.config", "getLoggingConfig">>
        /\ boot.resolved.logDir = getLoggingConfig(boot.env).logDir
        /\ boot.resolved.logFormat = getLoggingConfig(boot.env).logFormat
        /\ boot.resolved.enableFileTransport
               = getLoggingConfig(boot.env).enableFileTransport

\* C24: an upload whose file is larger than 5MB is answered with status 400,
\* and the file is never sent to R2.
C24_TooLargeAnswered400 ==
    (upload.pc \in {"done", "finished"} /\ upload.file.present
        /\ upload.file.size > MAX_FILE_SIZE)
        => (upload.status = 400 /\ upload.r2 = 0)

\* the part of C24 that holds: a file larger than 5MB never reaches uploadToR2
C24_TooLargeNeverSent ==
    (upload.pc # "none" /\ upload.file.present /\ upload.file.size > MAX_FILE_SIZE)
        => upload.r2 = 0

\* C25: for an entry at error or warn severity the console transport prints,
\* after the header, the error's message, its stack when it has one, and the
\* metadata, all on stderr; info and debug entries are printed on stdout.
C25_ConsoleDetailLines ==
    (sample.pc = "entry" /\ sample.printed) =>
        LET e == sample.entry
            whats == {sample.console[i].what : i \in DOMAIN sample.console}
        IN  /\ sample.console[1].what = "header"
            /\ levelOf(e) \in {"error", "warn"} =>
                   /\ \A i \in DOMAIN sample.console : sample.console[i].to = "stderr"
                   /\ e.m.error # undefinedV => "Error" \in whats
                   /\ (e.m.error # undefinedV /\ e.m.error.m.stack # undefinedV)
                          => "Stack" \in whats
                   /\ e.m.metadata # undefinedV => "Metadata" \in whats
            /\ levelOf(e) \in {"info", "debug"} =>
                   \A i \in DOMAIN sample.console : sample.console[i].to = "stdout"

\* the same for every entry that is not a warn entry with an error
C25_ExceptWarnWithError ==
    (sample.pc = "entry"
        /\ (levelOf(sample.entry) = "warn" => sample.entry.m.error = undefinedV))
        => C25_ConsoleDetailLines

\* C26: a call that reaches the file transport rotates exactly when the size the
\* pre-write stat reports is strictly greater than maxFileSize; with a size equal
\* to maxFileSize, a smaller one, or no active file, the entry is written and
\* nothing is rotated.
C26_RotateIffStrictlyOver ==
    [][(nentries' = nentries + 1 /\ last'.file)
          => /\ (last'.rotations >= 1) <=> Oversized
             /\ ~Oversized => (last'.wrote /\ last'.rotations = 0 /\ dir' = dir)]_vars

\* a call found the active file exactly at maxFileSize and wrote without rotating
C26_Witness ==
    /\ last.kind = "log"
    /\ last.file
    /\ last.wrote
    /\ last.rotations = 0
    /\ dir[ActiveName] # NoFile
    /\ SizeOf(files[dir[ActiveName]]) = maxFileSize
    /\ currentStream # NoStream
    /\ Len(streams[currentStream].buf) = 1
    /\ streams[currentStream].buf[1].id = last.id

RECURSIVE ReadBack(_)
\* the entries on disk read from archive i down to archive 1, then the active file
ReadBack(i) ==
    IF i < ActiveName THEN <<>>
    ELSE (IF dir[i] = NoFile THEN <<>> ELSE files[dir[i]]) \o ReadBack(i - 1)

\* position of inode n in the order of rotation
RotatedAt(n) == CHOOSE a \in DOMAIN rotated : rotated[a] = n

\* C28: archive 1 holds the most recently rotated file; of two archives the one
\* with the lower index was rotated later; and the archives read from the highest
\* index down to 1, followed by the active file, give the entries in the order
\* in which they were logged.
C28_ArchivesInLoggedOrder ==
    /\ (config.enableFileTransport /\ rotated # <<>>)
           => dir[1] = rotated[Len(rotated)]
    /\ \A i, j \in Archives :
           i < j => /\ \E a \in DOMAIN rotated : rotated[a] = dir[i]
                    /\ \E a \in DOMAIN rotated : rotated[a] = dir[j]
                    /\ RotatedAt(dir[i]) > RotatedAt(dir[j])
    /\ LET all == ReadBack(maxFiles)
       IN  \A p, q \in DOMAIN all : p < q => all[p].id <= all[q].id

\* the same without the runs that log after Logger.close()
C28_UnlessClosed == closed \/ C28_ArchivesInLoggedOrder

\* C29: the finish entry of a request comes after its start entry; it is logged
\* at most once, by the step in which the response's 'finish' event fires; and a
\* request whose response has not completed, or that never got a listener, has
\* no finish entry.
C29_StartThenFinishOnce ==
    /\ [](\A r \in DOMAIN reqs :
              /\ reqs[r].listening => reqs[r].finishId = 0
              /\ reqs[r].finishId # 0 =>
                     /\ reqs[r].startRid # NoId
                     /\ reqs[r].startId # 0 => reqs[r].startId < reqs[r].finishId)
    /\ [][\A r \in DOMAIN reqs :
              /\ reqs[r].finishId # 0 => reqs'[r].finishId = reqs[r].finishId
              /\ ~reqs[r].listening => ~reqs'[r].listening
              /\ reqs'[r].finishId # reqs[r].finishId =>
                     /\ reqs[r].listening
                     /\ last'.kind = "finish"
                     /\ last'.req = r
                     /\ last'.id = reqs'[r].finishId]_vars

\* one request has its start and its finish entry while another is still open
C29_Witness ==
    \E r, o \in DOMAIN reqs :
        /\ reqs[r].startId # 0
        /\ reqs[r].finishId # 0
        /\ reqs[o].listening
        /\ reqs[o].startId > reqs[r].startId

\* C30: every entry the middleware emits for a request carries the request's
\* identifier in the requestId field of the LogEntry, the field the console
\* line and the file line print as a tag.
C30_EntryTaggedWithRequestId ==
    (last.kind \in {"start", "finish", "reqerror"} /\ last.created
        /\ reqs[last.req].requestId # NoId)
        => last.requestId = reqs[last.req].requestId

\* C34: when the configured level is not one of the four severities, every call
\* at every severity passes the filter and is handed to the console transport,
\* and to the file transport when it is enabled.
C34_UnknownLevelPassesAll ==
    (last.kind = "log" /\ config.level \notin LogLevel) =>
        /\ last.created
        /\ last.console
        /\ last.file <=> config.enableFileTransport
        /\ \A lv \in LogLevel : shouldLog(lv, config.level)

\* a debug call was emitted under an unknown configured level
C34_Witness ==
    /\ last.kind = "log"
    /\ config.level \notin LogLevel
    /\ last.level = "debug"
    /\ last.created
    /\ last.console
    /\ last.wrote

\* C33: rotateLogs never takes its unlinkSync branch; the archive under index
\* maxFiles goes away only by being overwritten, by the rename of archive
\* maxFiles - 1 or, with maxFiles = 1, by the rename of the active file, in a
\* call that rotates or tries to.
C33_UnlinkNeverTaken ==
    /\ [](last.unlinks = 0)
    /\ [][(dir[maxFiles] # NoFile /\ dir'[maxFiles] # dir[maxFiles])
             => (/\ nentries' = nentries + 1
                 /\ last'.rotations + last'.rotErr = 1
                 /\ dir[maxFiles - 1] # NoFile
                 /\ dir'[maxFiles] = dir[maxFiles - 1])]_vars

\* with maxFiles = 1 a rotation has replaced the only archive by the active file
C33_Witness ==
    /\ last.kind = "log"
    /\ maxFiles = 1
    /\ last.rotations = 1
    /\ last.unlinks = 0
    /\ Len(rotated) = 2
    /\ dir[1] = rotated[2]

\* C32: while the file transport is enabled and close() has not been called,
\* every entry that passes the filter is written to the stream of the active
\* file by the call that logged it, also when that call rotates and when its
\* rotation attempt fails.
C32_EveryEntryWritten ==
    (last.kind = "log" /\ last.created /\ config.enableFileTransport /\ ~closed
        /\ ~last.raised)
        => /\ last.wrote
           /\ currentStream # NoStream
           /\ \E p \in DOMAIN streams[currentStream].buf :
                  streams[currentStream].buf[p].id = last.id

\* the same for the calls whose rotation attempt does not fail
C32_UnlessRotationFails ==
    last.rotErr = 0 => C32_EveryEntryWritten

\* C31: a request whose handling surfaces an error has its entries in the order
\* start, request error, finish; the finish entry is at error severity with
\* status 500; all three carry the identifier of the request; and the 500
\* response is sent only after the error entry has been logged.
C31_ErrorRequestEntries ==
    /\ \A r \in DOMAIN reqs :
           reqs[r].err # NoError =>
               /\ reqs[r].startRid # NoId
               /\ reqs[r].status = 500
               /\ (reqs[r].startId # 0 /\ reqs[r].errorId # 0)
                      => reqs[r].startId < reqs[r].errorId
               /\ (reqs[r].errorId # 0 /\ reqs[r].finishId # 0)
                      => reqs[r].errorId < reqs[r].finishId
    /\ (last.kind = "reqerror" /\ last.created) =>
           /\ last.level = "error"
           /\ last.rid = reqs[last.req].startRid
           /\ reqs[last.req].finishId = 0
    /\ (last.kind = "finish" /\ reqs[last.req].err # NoError) =>
           /\ last.level = "error"
           /\ last.status = 500
           /\ last.rid = reqs[last.req].startRid

\* the same for the requests that reached requestLogger
C31_ThroughRequestLogger ==
    (\A r \in DOMAIN reqs : reqs[r].err # NoError => reqs[r].startRid # NoId)
        => C31_ErrorRequestEntries

\* C35: an invocation of uploadPrint sends exactly one response; uploadToR2 is
\* invoked only for a file that is present, of an allowed image type and at most
\* 5MB; a missing file or a type that is not allowed is answered 400, a failed
\* R2 upload 500.
C35_OneResponsePerUpload ==
    (upload.pc # "none" /\ upload.invoked) =>
        /\ upload.responses <= 1
        /\ upload.pc \in {"done", "finished"} <=> upload.responses = 1
        /\ upload.r2 <= 1
        /\ upload.r2 > 0 =>
               /\ upload.file.present
               /\ upload.file.mimetype \in ALLOWED_TYPES
               /\ upload.file.size <= MAX_FILE_SIZE
        /\ upload.responses = 1 =>
               /\ (~upload.file.present \/ upload.file.mimetype \notin ALLOWED_TYPES)
                      => (upload.status = 400 /\ upload.r2 = 0)
               /\ upload.r2result = "failed" => upload.status = 500
               /\ upload.r2result = "ok" => upload.status = 200

\* a file of exactly 5MB went to R2, the upload failed and 500 was answered
C35_Witness ==
    /\ upload.pc = "finished"
    /\ upload.invoked
    /\ upload.file.size = MAX_FILE_SIZE
    /\ upload.r2 = 1
    /\ upload.r2result = "failed"
    /\ upload.responses = 1
    /\ upload.status = 500

====
